---- MODULE Spec2Model ----
(***************************************************************************)
(* gormstore: session persistence on a relational table through GORM.      *)
(*                                                                         *)
(* Two stores are modelled; a behaviour of Spec is a run of one of them:    *)
(*   "driver"  the session-framework driver of src/gormstore.go            *)
(*             (Read / Write / Destroy / Gc / Close);                      *)
(*   "store"   the cookie store of src/unnamed/part_001                    *)
(*             (New / Save / Cleanup / MaxAge).                            *)
(*                                                                         *)
(* Time is counted in whole seconds.  Every ORM call is one SQL statement; *)
(* a statement either executes atomically or fails with an error of        *)
(* StmtErrors and then changes nothing.  Session ids range over non-empty  *)
(* strings (GORM reads an empty primary key as "not set").                 *)
(***************************************************************************)
EXTENDS Integers, FiniteSets, Sequences, TLC

VARIABLES
    variant,        \* which of the two stores is deployed: "driver" or "store"
    now,            \* the wall clock, time.Now(), in seconds
    table,          \* the rows of the sessions table
    last,           \* the call that ran last: its inputs, the table it found, what
                    \* it returned (history variable)
    written,        \* driver: per id, the payload of the last successful Write that
                    \* no Destroy or Gc has removed since (history variable)
    SessionOpts,    \* store: Store.SessionOpts
    secureCookie,   \* store: the options Store.secureCookie was built with
    DefaultOptions, \* store: the package variable securecookie.DefaultOptions
    pc,             \* store: per request handler, where it is in Save
    ctx,            \* store: per request handler, the locals of its Save
    cleaner,        \* store: the goroutine running PeriodicCleanup, its ticker and
                    \* its quit channel
    peer,           \* store: a second Store of the same process, on the same table
    asked           \* store: what the caller last passed to MaxAge and to MaxLength
                    \* of the store (history variable)

vars == <<variant, now, table, last, written, SessionOpts, secureCookie,
          DefaultOptions, pc, ctx, cleaner, peer, asked>>

storeVars == <<SessionOpts, secureCookie, DefaultOptions, pc, ctx, cleaner, peer,
               asked>>

----------------------------------------------------------------------------
(* Bounds of the model *)

MaxTime == 3
MaxLifetime == 2


----------------------------------------------------------------------------
(* Values *)

Nil == "<nil>"
NoErr == "<nil error>"
StmtErrors == {"ErrInvalidDB", "ErrTimeout"}
Faults == {NoErr} \cup StmtErrors
(* The cookie store drops the error of a query and of the sweep: one error
   stands for all *)
QueryFaults == {NoErr, "ErrInvalidDB"}

IDs == {"a", "b"}
Payloads == {"", "p", "q"}

(* time.Time{} : the value of a time field the code never sets *)
ZeroTime == 0

(* The clock starts after the zero value of time.Time. *)
StartTime == ZeroTime + 1

(* A pointer or an optional value is a sequence: <<>> is nil, <<x>> holds x. *)
NilPtr == <<>>

----------------------------------------------------------------------------
(* Driver variant: src/gormstore.go *)

gormSession == [ID : IDs, Data : Payloads, CreatedAt : 0..MaxTime, UpdatedAt : 0..MaxTime]

(* &gormSession{} : what Find leaves in its destination when no row matches *)
EmptySession == [ID |-> "", Data |-> "", CreatedAt |-> ZeroTime, UpdatedAt |-> ZeroTime]

(* A DELETE that has lost its WHERE *)
OrmDelete_unscoped(T, match, fault) ==
    IF fault # NoErr
    THEN [rows |-> T, err |-> fault]
    ELSE [rows |-> {}, err |-> NoErr]

(* db.Delete(value, cond): one DELETE ... WHERE cond; match is the set of rows
   of T that satisfy cond.  Deleting no row is no error. *)
OrmDelete(T, match, fault) ==
    IF fault # NoErr
    THEN [rows |-> T, err |-> fault]
    ELSE [rows |-> T \ match, err |-> NoErr]

(* A Save that always inserts: the row of an existing id is not replaced *)
OrmSave_insert(T, s, t, fault) ==
    IF fault # NoErr
    THEN [rows |-> T, err |-> fault]
    ELSE [rows |-> T \cup {[s EXCEPT !.CreatedAt = t, !.UpdatedAt = t]},
          err |-> NoErr]

(* db.Save(s) with the primary key set: UPDATE of every column WHERE id = s.ID
   (updated_at is set to the time of the statement); when that touches no row,
   INSERT of s, its created_at and updated_at set to the time of the statement
   where s leaves them zero. *)
OrmSave(T, s, t, fault) ==
    IF fault # NoErr
    THEN [rows |-> T, err |-> fault]
    ELSE IF \E r \in T : r.ID = s.ID
         THEN [rows |-> {IF r.ID = s.ID
                         THEN [s EXCEPT !.UpdatedAt = t]
                         ELSE r : r \in T},
               err |-> NoErr]
         ELSE [rows |-> T \cup {[s EXCEPT
                                    !.CreatedAt = IF @ = ZeroTime THEN t ELSE @,
                                    !.UpdatedAt = IF @ = ZeroTime THEN t ELSE @]},
               err |-> NoErr]

(* A lookup that passes over rows older than a second *)
getSessionByID_aged(T, id, fault) ==
    IF fault # NoErr
    THEN NilPtr
    ELSE IF \E r \in T : r.ID = id /\ r.UpdatedAt >= now - 1
         THEN <<CHOOSE r \in T : r.ID = id /\ r.UpdatedAt >= now - 1>>
         ELSE <<EmptySession>>

(* getSessionByID: Where("id = ?", id).Limit(1).Find(s); nil on a statement
   error, otherwise s, which stays the empty struct when no row matches. *)
getSessionByID(T, id, fault) ==
    IF fault # NoErr
    THEN NilPtr
    ELSE IF \E r \in T : r.ID = id
         THEN <<CHOOSE r \in T : r.ID = id>>
         ELSE <<EmptySession>>

(* int and time.Duration are 64-bit integers in two's complement.  A word is
   the bit pattern of one, as four limbs of 16 bits, the lowest first. *)
Base == 2^16

Word(n) == <<n % Base, (n \div Base) % Base, 0, 0>>

(* w * k and w + k modulo 2^64, for 0 <= k < Base *)
MulSmall(w, k) ==
    LET p1 == w[1] * k
        p2 == w[2] * k + p1 \div Base
        p3 == w[3] * k + p2 \div Base
        p4 == w[4] * k + p3 \div Base
    IN <<p1 % Base, p2 % Base, p3 % Base, p4 % Base>>

AddSmall(w, k) ==
    LET p1 == w[1] + k
        p2 == w[2] + p1 \div Base
        p3 == w[3] + p2 \div Base
        p4 == w[4] + p3 \div Base
    IN <<p1 % Base, p2 % Base, p3 % Base, p4 % Base>>

(* -w modulo 2^64 *)
Neg64(w) == AddSmall(<<Base - 1 - w[1], Base - 1 - w[2], Base - 1 - w[3],
                       Base - 1 - w[4]>>, 1)

(* The sign bit *)
IsNegative(w) == w[4] >= Base \div 2

(* The word of an int the model holds as a number *)
WordOf(n) == IF n >= 0 THEN Word(n) ELSE Neg64(Word(-n))

(* The word of a non-negative int given by its decimal digits in groups of
   four, <<92, 2337, 2036>> for 9223372036 *)
RECURSIVE Decimal(_)
Decimal(ds) ==
    IF ds = <<>>
    THEN Word(0)
    ELSE AddSmall(MulSmall(Decimal(SubSeq(ds, 1, Len(ds) - 1)), 10000),
                  ds[Len(ds)])

(* The unsigned word w divided by k, 0 < k < Base: quotient and remainder *)
DivSmall(w, k) ==
    LET n4 == w[4]
        n3 == (n4 % k) * Base + w[3]
        n2 == (n3 % k) * Base + w[2]
        n1 == (n2 % k) * Base + w[1]
    IN [q |-> <<n1 \div k, n2 \div k, n3 \div k, n4 \div k>>, r |-> n1 % k]

(* time.Duration(n) * time.Second: n * 10^9 nanoseconds, modulo 2^64 *)
TimesSecond(w) == MulSmall(MulSmall(MulSmall(w, 1000), 1000), 1000)

(* Times further than Far seconds from now are all the same to a table whose
   rows were written during the run *)
Far == 2^30

(* The unsigned word w as a number, Far when it is Far or more *)
Near(w) ==
    IF w[4] = 0 /\ w[3] = 0 /\ w[2] < Far \div Base
    THEN w[2] * Base + w[1]
    ELSE Far

(* The least whole number of seconds that is not less than the duration d of
   nanoseconds (a signed word): rows carry whole seconds, and updated_at < t + d
   holds of the same rows as updated_at < t + that number of seconds *)
SecondsCeil(d) ==
    LET m == IF IsNegative(d) THEN Neg64(d) ELSE d
        a == DivSmall(m, 1000)
        b == DivSmall(a.q, 1000)
        c == DivSmall(b.q, 1000)
        exact == a.r = 0 /\ b.r = 0 /\ c.r = 0
    IN IF IsNegative(d)
       THEN 0 - Near(c.q)
       ELSE Near(c.q) + (IF exact THEN 0 ELSE 1)

(* time.Now().Add(-time.Duration(maxLifetime) * time.Second), maxLifetime given
   as a word *)
GcCutoffOf(t, w) == t + SecondsCeil(TimesSecond(Neg64(w)))

(* A sweep whose cutoff lies after now instead of before *)
GcCutoff_forward(t, maxLifetime) == t + maxLifetime

(* "updated_at < ?" with time.Now().Add(-time.Duration(maxLifetime)*time.Second) *)
GcCutoff(t, maxLifetime) == GcCutoffOf(t, WordOf(maxLifetime))

(* A sweep whose bound is inclusive *)
GcEligible_inclusive(r, cutoff) == r.UpdatedAt <= cutoff

GcEligible(r, cutoff) == r.UpdatedAt < cutoff

Call(op, id, data, maxLifetime, fault, out, err) ==
    [op |-> op, id |-> id, data |-> data, maxLifetime |-> maxLifetime,
     fault |-> fault, at |-> now, before |-> table, out |-> out, err |-> err]

(* written', given the table the call leaves behind: an id whose row is gone
   has no written payload any more *)
Forget(w, T) == [k \in IDs |-> IF \E r \in T : r.ID = k THEN w[k] ELSE Nil]

Close ==
    /\ variant = "driver"
    /\ last' = Call("Close", Nil, Nil, 0, NoErr, Nil, NoErr)
    /\ UNCHANGED <<variant, now, table, written, storeVars>>

(* A Destroy whose DELETE has lost its WHERE *)
Destroy_all(id, fault) ==
    LET res == OrmDelete(table, table, fault)
    IN /\ variant = "driver"
       /\ table' = res.rows
       /\ last' = Call("Destroy", id, Nil, 0, fault, Nil, res.err)
       /\ written' = Forget(written, res.rows)
       /\ UNCHANGED <<variant, now, storeVars>>

Destroy(id, fault) ==
    LET res == OrmDelete(table, {r \in table : r.ID = id}, fault)
    IN /\ variant = "driver"
       /\ table' = res.rows
       /\ last' = Call("Destroy", id, Nil, 0, fault, Nil, res.err)
       /\ written' = Forget(written, res.rows)
       /\ UNCHANGED <<variant, now, storeVars>>

(* A Read that hands the error of its query to the caller *)
Read_propagating(id, fault) ==
    LET s == getSessionByID(table, id, fault)
    IN /\ variant = "driver"
       /\ last' = Call("Read", id, Nil, 0, fault,
                       IF s # NilPtr THEN s[1].Data ELSE "", fault)
       /\ UNCHANGED <<variant, now, table, written, storeVars>>

Read(id, fault) ==
    LET s == getSessionByID(table, id, fault)
    IN /\ variant = "driver"
       /\ last' = Call("Read", id, Nil, 0, fault,
                       IF s # NilPtr THEN s[1].Data ELSE "", NoErr)
       /\ UNCHANGED <<variant, now, table, written, storeVars>>

(* A Gc that drops the error of its statement *)
Gc_silent(maxLifetime, fault) ==
    LET cutoff == GcCutoff(now, maxLifetime)
        res == OrmDelete(table, {r \in table : GcEligible(r, cutoff)}, fault)
    IN /\ variant = "driver"
       /\ table' = res.rows
       /\ last' = Call("Gc", Nil, Nil, maxLifetime, fault, Nil, NoErr)
       /\ written' = Forget(written, res.rows)
       /\ UNCHANGED <<variant, now, storeVars>>

Gc(maxLifetime, fault) ==
    LET cutoff == GcCutoff(now, maxLifetime)
        res == OrmDelete(table, {r \in table : GcEligible(r, cutoff)}, fault)
    IN /\ variant = "driver"
       /\ table' = res.rows
       /\ last' = Call("Gc", Nil, Nil, maxLifetime, fault, Nil, res.err)
       /\ written' = Forget(written, res.rows)
       /\ UNCHANGED <<variant, now, storeVars>>

(* Lifetimes beyond what the model holds as a number, by their decimal digits:
   9223372036 s, the greatest whose nanoseconds fit 63 bits; 9223372037 s; and
   9223372036854775807 s, the greatest int *)
LongLifetimes ==
    {<<92, 2337, 2036>>,
     <<92, 2337, 2037>>,
     <<922, 3372, 368, 5477, 5807>>}

(* Gc with a lifetime of LongLifetimes *)
GcLong(digits, fault) ==
    LET cutoff == GcCutoffOf(now, Decimal(digits))
        res == OrmDelete(table, {r \in table : GcEligible(r, cutoff)}, fault)
    IN /\ variant = "driver"
       /\ table' = res.rows
       /\ last' = Call("GcLong", Nil, Nil, digits, fault, Nil, res.err)
       /\ written' = Forget(written, res.rows)
       /\ UNCHANGED <<variant, now, storeVars>>

Write(id, data, fault) ==
    LET s == [ID |-> id, Data |-> data, CreatedAt |-> ZeroTime, UpdatedAt |-> ZeroTime]
        res == OrmSave(table, s, now, fault)
    IN /\ variant = "driver"
       /\ table' = res.rows
       /\ last' = Call("Write", id, data, 0, fault, Nil, res.err)
       /\ written' = IF res.err = NoErr
                     THEN [Forget(written, res.rows) EXCEPT ![id] = data]
                     ELSE written
       /\ UNCHANGED <<variant, now, storeVars>>


----------------------------------------------------------------------------
(* Self-contained variant: src/unnamed/part_001 *)

defaultMaxAge == 2592000

(* The default of securecookie's MaxLength *)
defaultMaxLength == 4096

(* The request handlers (goroutines of the HTTP server) *)
Handlers == {"h1", "h2"}

(* The request handlers that may be inside Save at the same time *)
Procs == {"h1"}

(* NewOptions(db, opts, keys...): keys[1] is the active key, the rest are the
   rotated keys; ForeignKey is a key the store was not given. *)
keys == <<"k2", "k1">>
ForeignKey == "k0"
AllKeys == {keys[i] : i \in 1..Len(keys)} \cup {ForeignKey}

(* securecookie.New(ks[0], &securecookie.Options{MaxAge, MaxLength,
   RotatedKeys: ks[1:]}) for keys it accepts: ks[0] encodes and decodes, the
   others only decode *)
Envelope(ks, maxAge, maxLength) ==
    [MaxAge |-> maxAge, MaxLength |-> maxLength, Key |-> ks[1],
     RotatedKeys |-> Tail(ks)]

(* The name of the session and of its cookie *)
SessionName == "sid"

(* session.Values of a session that holds nothing *)
EmptyValues == ""
(* The sessions a handler saves: session.Options.MaxAge and session.Values;
   the values "big" do not fit a cookie of the default maximum length *)
Sessions ==
    {[MaxAge |-> -1, Values |-> "v1"],
     [MaxAge |-> 1, Values |-> "v1"],
     [MaxAge |-> defaultMaxAge, Values |-> "v2"],
     [MaxAge |-> defaultMaxAge, Values |-> "big"]}
StoreAges == {1, defaultMaxAge}

(* The length of the envelope of val, in bytes *)
LenOf(val) == IF val = "big" THEN 5000 ELSE 100

(* An Encode that leaves out the time stamp *)
Encode_unstamped(sc, name, val, t) ==
    IF sc.MaxLength # 0 /\ LenOf(val) > sc.MaxLength
    THEN [err |-> "ErrValueTooLong", env |-> NilPtr]
    ELSE [err |-> NoErr,
          env |-> <<[name |-> name, val |-> val, key |-> sc.Key, ts |-> ZeroTime]>>]

(* securecookie.Encode(name, val): the envelope of val under the active key,
   stamped with the time; an error when it is longer than MaxLength allows *)
Encode(sc, name, val, t) ==
    IF sc.MaxLength # 0 /\ LenOf(val) > sc.MaxLength
    THEN [err |-> "ErrValueTooLong", env |-> NilPtr]
    ELSE [err |-> NoErr,
          env |-> <<[name |-> name, val |-> val, key |-> sc.Key, ts |-> t]>>]

(* securecookie.Decode(name, c, &dst): succeeds when c was made for this name
   under the active or a rotated key, is not older than MaxAge and not longer
   than MaxLength (0: no limit) *)
Decodes(sc, name, c, t) ==
    /\ c.name = name
    /\ \/ c.key = sc.Key
       \/ \E i \in 1..Len(sc.RotatedKeys) : c.key = sc.RotatedKeys[i]
    /\ sc.MaxAge = 0 \/ c.ts >= t - sc.MaxAge
    /\ sc.MaxLength = 0 \/ LenOf(c.val) <= sc.MaxLength

(* What a request may carry under the session's name: no cookie, the envelope
   of an id made now under the active key, or an envelope of the id "a" made
   under a rotated key, under a foreign key, two seconds ago, or for another
   name *)
Requests(t) ==
    {NilPtr}
    \cup {<<[name |-> SessionName, val |-> id, key |-> keys[1], ts |-> t]>> :
            id \in IDs}
    \cup {<<[name |-> SessionName, val |-> "a", key |-> k, ts |-> t]>> :
            k \in AllKeys}
    \cup {<<[name |-> SessionName, val |-> "a", key |-> keys[1], ts |-> t - 2]>>,
          <<[name |-> "alt", val |-> "a", key |-> keys[1], ts |-> t]>>}

(* The requests Save is called with: those of Requests(t) that differ in what
   Save does with them (no cookie, a cookie of either id, a cookie that does
   not decode) *)
SaveRequests(t) ==
    {r \in Requests(t) : r = NilPtr \/ (r[1].name = SessionName /\ r[1].ts = t
                                         /\ r[1].key # keys[2])}

(* A lookup that still returns a record at the instant it expires *)
LookupMatches_inclusive(r, id, t) == r.ID = id /\ r.ExpiresAt >= t

(* "id = ? AND expires_at > ?" *)
LookupMatches(r, id, t) == r.ID = id /\ r.ExpiresAt > t

(* A sweep that leaves the records expiring at this instant *)
CleanupMatches_strict(r, t) == r.ExpiresAt < t

(* "expires_at <= ?" *)
CleanupMatches(r, t) == r.ExpiresAt <= t

(* db.Create(s): one INSERT; the primary key id admits no second row *)
OrmCreate(T, s, fault) ==
    IF fault # NoErr
    THEN [rows |-> T, err |-> fault]
    ELSE IF \E r \in T : r.ID = s.ID
         THEN [rows |-> T, err |-> "ErrDuplicatedKey"]
         ELSE [rows |-> T \cup {s}, err |-> NoErr]

(* A lookup that takes the id from the cookie without verifying the envelope *)
getSessionFromCookie_unverified(T, sc, req, name, t, fault) ==
    IF req = NilPtr
    THEN NilPtr
    ELSE IF fault # NoErr \/ ~\E r \in T : LookupMatches(r, req[1].val, t)
         THEN NilPtr
         ELSE <<CHOOSE r \in T : LookupMatches(r, req[1].val, t)>>

(* getSessionFromCookie: nil without the cookie, when its value does not decode
   to an id, when the query fails and when no row matches *)
getSessionFromCookie(T, sc, req, name, t, fault) ==
    IF req = NilPtr \/ ~Decodes(sc, name, req[1], t)
    THEN NilPtr
    ELSE IF fault # NoErr \/ ~\E r \in T : LookupMatches(r, req[1].val, t)
         THEN NilPtr
         ELSE <<CHOOSE r \in T : LookupMatches(r, req[1].val, t)>>

NoSess == [MaxAge |-> 0, Values |-> EmptyValues]

StoreCall(op, p, req, sess, fault, s, out, cookie, err) ==
    [op |-> op, p |-> p, req |-> req, sess |-> sess, fault |-> fault,
     at |-> now, before |-> table, s |-> s, out |-> out, cookie |-> cookie,
     err |-> err]

(* A rebuild of the envelope that leaves out the rotated keys *)
AfterMaxAge_unrotated(age) ==
    [SessionOpts |-> [SessionOpts EXCEPT !.MaxAge = age],
     DefaultOptions |-> [DefaultOptions EXCEPT !.MaxAge = age],
     secureCookie |-> Envelope(<<keys[1]>>, age, DefaultOptions.MaxLength)]

(* MaxAge sets the maximum age for the store and the underlying cookie
   implementation *)
AfterMaxAge(age) ==
    [SessionOpts |-> [SessionOpts EXCEPT !.MaxAge = age],
     DefaultOptions |-> [DefaultOptions EXCEPT !.MaxAge = age],
     secureCookie |-> Envelope(keys, age, DefaultOptions.MaxLength)]

MaxAge(age) ==
    LET st == AfterMaxAge(age)
    IN /\ variant = "store"
       /\ SessionOpts' = st.SessionOpts
       /\ DefaultOptions' = st.DefaultOptions
       /\ secureCookie' = st.secureCookie
       /\ last' = StoreCall("MaxAge", Nil, NilPtr, NoSess, NoErr, NilPtr, NilPtr,
                            NilPtr, NoErr)
       /\ asked' = [asked EXCEPT !.MaxAge = <<age>>]
       /\ UNCHANGED <<variant, now, table, written, pc, ctx, cleaner, peer>>

StoreLengths == {0, 8192}

(* MaxLength restricts the maximum length of new sessions to l. *)
MaxLength(l) ==
    /\ variant = "store"
    /\ DefaultOptions' = [DefaultOptions EXCEPT !.MaxLength = l]
    /\ secureCookie' = Envelope(keys, DefaultOptions.MaxAge, l)
    /\ asked' = [asked EXCEPT !.MaxLength = <<l>>]
    /\ last' = StoreCall("MaxLength", Nil, NilPtr, NoSess, NoErr, NilPtr, NilPtr,
                         NilPtr, NoErr)
    /\ UNCHANGED <<variant, now, table, written, SessionOpts, pc, ctx, cleaner,
                   peer>>

(* New creates a session with name without adding it to the registry. *)
New(p, req, fault) ==
    LET opts == SessionOpts
        st == AfterMaxAge(SessionOpts.MaxAge)
        sc == st.secureCookie
        s == getSessionFromCookie(table, sc, req, SessionName, now, fault)
        loaded == s # NilPtr /\ Decodes(sc, SessionName, s[1].Data, now)
        session == IF loaded
                   THEN [ID |-> s[1].ID, IsNew |-> FALSE,
                         Values |-> s[1].Data.val, Options |-> opts]
                   ELSE [ID |-> "", IsNew |-> TRUE,
                         Values |-> EmptyValues, Options |-> opts]
    IN /\ variant = "store"
       /\ pc[p] = "idle"
       /\ SessionOpts' = st.SessionOpts
       /\ DefaultOptions' = st.DefaultOptions
       /\ secureCookie' = sc
       /\ last' = StoreCall("New", p, req, NoSess, fault, s, <<session>>, NilPtr,
                            NoErr)
       /\ UNCHANGED <<variant, now, table, written, pc, ctx, cleaner, peer, asked>>

(* The envelope NewOptions builds: securecookie.Options with RotatedKeys and
   Serializer only, so no maximum age and no maximum length *)
NewEnvelope == Envelope(keys, 0, 0)

(* Save, line 143: the lookup of the existing record.  The session saved is one
   that New handed out, so the envelope has been rebuilt (line 126) since
   NewOptions. *)
SaveLookup(p, req, sess, fault) ==
    LET s == getSessionFromCookie(table, secureCookie, req, SessionName, now, fault)
    IN /\ variant = "store"
       /\ pc[p] = "idle"
       /\ secureCookie # NewEnvelope
       /\ pc' = [pc EXCEPT ![p] = "saving"]
       /\ ctx' = [ctx EXCEPT ![p] = [sess |-> sess, s |-> s]]
       /\ last' = StoreCall("SaveLookup", p, req, sess, fault, s, NilPtr, NilPtr,
                            NoErr)
       /\ UNCHANGED <<variant, now, table, written, SessionOpts, secureCookie,
                      DefaultOptions, cleaner, peer, asked>>

(* A Save that clears the cookie and leaves the record *)
SaveDelete_keep(s, sess, fault) ==
    [rows |-> table, err |-> NoErr, ID |-> "",
     cookie |-> <<[name |-> SessionName, value |-> NilPtr,
                   MaxAge |-> sess.MaxAge]>>]

(* Save, lines 145-154: max age < 0 deletes the record and clears the cookie *)
SaveDelete(s, sess, fault) ==
    LET res == IF s # NilPtr
               THEN OrmDelete(table, {r \in table : r.ID = s[1].ID}, fault)
               ELSE [rows |-> table, err |-> NoErr]
    IN [rows |-> res.rows, err |-> res.err, ID |-> "",
        cookie |-> IF res.err = NoErr
                   THEN <<[name |-> SessionName, value |-> NilPtr,
                           MaxAge |-> sess.MaxAge]>>
                   ELSE NilPtr]

(* Save, lines 156-194, with the envelope sc: insert under a fresh id or update
   in place, then set the cookie to the envelope of the id *)
SaveWriteWith(sc, s, sess, fault, newID) ==
    LET data == Encode(sc, SessionName, sess.Values, now)
        expire == now + sess.MaxAge
        row == IF s = NilPtr
               THEN [ID |-> newID, Data |-> data.env[1], CreatedAt |-> now,
                     UpdatedAt |-> now, ExpiresAt |-> expire]
               ELSE [s[1] EXCEPT !.Data = data.env[1], !.UpdatedAt = now,
                                 !.ExpiresAt = expire]
        res == IF s = NilPtr
               THEN OrmCreate(table, row, fault)
               ELSE OrmSave(table, row, now, fault)
        id == Encode(sc, SessionName, row.ID, now)
    IN IF data.err # NoErr
       THEN [rows |-> table, err |-> data.err, ID |-> "", cookie |-> NilPtr]
       ELSE IF res.err # NoErr
       THEN [rows |-> table, err |-> res.err,
             ID |-> IF s = NilPtr THEN newID ELSE "", cookie |-> NilPtr]
       ELSE IF id.err # NoErr
       THEN [rows |-> res.rows, err |-> id.err,
             ID |-> IF s = NilPtr THEN newID ELSE "", cookie |-> NilPtr]
       ELSE [rows |-> res.rows, err |-> NoErr,
             ID |-> IF s = NilPtr THEN newID ELSE "",
             cookie |-> <<[name |-> SessionName, value |-> id.env,
                           MaxAge |-> sess.MaxAge]>>]

SaveWrite(s, sess, fault, newID) ==
    SaveWriteWith(secureCookie, s, sess, fault, newID)

(* Save, from line 145 on: the statement that changes the table, and the cookie.
   newID is the id securecookie.GenerateRandomKey yields. *)
Save(p, fault, newID) ==
    LET s == ctx[p].s
        sess == ctx[p].sess
        r == IF sess.MaxAge < 0
             THEN SaveDelete(s, sess, fault)
             ELSE SaveWrite(s, sess, fault, newID)
    IN /\ variant = "store"
       /\ pc[p] = "saving"
       /\ table' = r.rows
       /\ pc' = [pc EXCEPT ![p] = "idle"]
       /\ ctx' = [ctx EXCEPT ![p] = [sess |-> NoSess, s |-> NilPtr]]
       /\ last' = StoreCall("Save", p, NilPtr, sess, fault, s,
                            <<[ID |-> r.ID]>>, r.cookie, r.err)
       /\ UNCHANGED <<variant, now, written, SessionOpts, secureCookie,
                      DefaultOptions, cleaner, peer, asked>>

(* Cleanup deletes expired sessions; the statement's error is dropped *)
Cleanup(fault) ==
    LET res == OrmDelete(table, {r \in table : CleanupMatches(r, now)}, fault)
    IN /\ variant = "store"
       /\ table' = res.rows
       /\ last' = StoreCall("Cleanup", Nil, NilPtr, NoSess, fault, NilPtr, NilPtr,
                            NilPtr, NoErr)
       /\ UNCHANGED <<variant, now, written, storeVars>>

----------------------------------------------------------------------------
(* PeriodicCleanup: src/unnamed/part_001, lines 249-260 *)

(* Before `go st.PeriodicCleanup(interval, quit)`: no ticker, quit open.
     at      where the goroutine is: "idle" (not started), "select" (line 253),
             "pass" (line 255, inside Cleanup) or "done" (returned)
     ticker  "none", "on" (time.NewTicker) or "stopped" (t.Stop)
     C       whether a tick waits in t.C, a channel with room for one tick
     quit    whether the quit channel has been closed
     rx, px  ticks received and passes finished, counted modulo Modulus
     late    passes started after quit was closed, counted up to 2 *)
CleanerOff ==
    [at |-> "idle", ticker |-> "none", C |-> FALSE, quit |-> FALSE,
     rx |-> 0, px |-> 0, late |-> 0]

Modulus == 3

(* line 250: t := time.NewTicker(interval), for an interval > 0 *)
PeriodicCleanup ==
    /\ variant = "store"
    /\ cleaner.at = "idle"
    /\ cleaner' = [cleaner EXCEPT !.at = "select", !.ticker = "on"]
    /\ UNCHANGED <<variant, now, table, last, written, SessionOpts, secureCookie,
                   DefaultOptions, pc, ctx, peer, asked>>

(* The runtime's timer: every interval it puts a tick into t.C, and drops the
   tick when one is waiting there already *)
TickerFires ==
    /\ variant = "store"
    /\ cleaner.ticker = "on"
    /\ ~cleaner.C
    /\ cleaner' = [cleaner EXCEPT !.C = TRUE]
    /\ UNCHANGED <<variant, now, table, last, written, SessionOpts, secureCookie,
                   DefaultOptions, pc, ctx, peer, asked>>

(* The caller closes the quit channel *)
CloseQuit ==
    /\ variant = "store"
    /\ ~cleaner.quit
    /\ cleaner' = [cleaner EXCEPT !.quit = TRUE]
    /\ UNCHANGED <<variant, now, table, last, written, SessionOpts, secureCookie,
                   DefaultOptions, pc, ctx, peer, asked>>

(* line 254: case <-t.C.  select takes any one of the cases that are ready. *)
SelectTick ==
    /\ variant = "store"
    /\ cleaner.at = "select"
    /\ cleaner.C
    /\ cleaner' = [cleaner EXCEPT
                      !.at = "pass",
                      !.C = FALSE,
                      !.rx = (@ + 1) % Modulus,
                      !.late = IF cleaner.quit /\ @ < 2 THEN @ + 1 ELSE @]
    /\ UNCHANGED <<variant, now, table, last, written, SessionOpts, secureCookie,
                   DefaultOptions, pc, ctx, peer, asked>>

(* line 255: st.Cleanup() *)
CleanupPass(fault) ==
    LET res == OrmDelete(table, {r \in table : CleanupMatches(r, now)}, fault)
    IN /\ variant = "store"
       /\ cleaner.at = "pass"
       /\ table' = res.rows
       /\ last' = StoreCall("Cleanup", Nil, NilPtr, NoSess, fault, NilPtr, NilPtr,
                            NilPtr, NoErr)
       /\ cleaner' = [cleaner EXCEPT !.at = "select", !.px = (@ + 1) % Modulus]
       /\ UNCHANGED <<variant, now, written, SessionOpts, secureCookie,
                      DefaultOptions, pc, ctx, peer, asked>>

(* A return that leaves the ticker running *)
SelectQuit_leak ==
    /\ variant = "store"
    /\ cleaner.at = "select"
    /\ cleaner.quit
    /\ cleaner' = [cleaner EXCEPT !.at = "done"]
    /\ UNCHANGED <<variant, now, table, last, written, SessionOpts, secureCookie,
                   DefaultOptions, pc, ctx, peer, asked>>

(* lines 256-257: case <-quit: return, and the deferred t.Stop() of line 251 *)
SelectQuit ==
    /\ variant = "store"
    /\ cleaner.at = "select"
    /\ cleaner.quit
    /\ cleaner' = [cleaner EXCEPT !.at = "done", !.ticker = "stopped"]
    /\ UNCHANGED <<variant, now, table, last, written, SessionOpts, secureCookie,
                   DefaultOptions, pc, ctx, peer, asked>>

----------------------------------------------------------------------------
(* A second Store, constructed during the run: NewOptions and its methods.
   Both stores work on the one table and, being in one process, share
   securecookie.DefaultOptions. *)

(* A key securecookie.New returns an error for *)
BadKey == "short"

(* The key lists the second store may be constructed with: none, the key the
   first store has rotated out, a key securecookie does not accept *)
KeyLists == {<<>>, <<keys[2]>>, <<BadKey>>}

(* sc, _ := securecookie.New(ks[0], options): nil when New returns an error *)
SecureCookieNew(ks, maxAge, maxLength) ==
    IF \A i \in 1..Len(ks) : ks[i] \in AllKeys
    THEN <<Envelope(ks, maxAge, maxLength)>>
    ELSE NilPtr

Panic == "panic"

PeerCall(op, req, sess, s, out, cookie, err) ==
    StoreCall(op, "peer", req, sess, NoErr, s, out, cookie, err)

(* NewOptions, lines 80-108 *)
NewOptions(ks) ==
    /\ variant = "store"
    /\ peer = NilPtr
    /\ IF Len(ks) = 0
       THEN /\ peer' = NilPtr
            /\ last' = PeerCall("NewOptions", NilPtr, NoSess, NilPtr, NilPtr, NilPtr,
                                Panic)
       ELSE /\ peer' = <<[keys |-> ks,
                          secureCookie |-> SecureCookieNew(ks, 0, 0),
                          SessionOpts |-> [Path |-> "/", MaxAge |-> defaultMaxAge]]>>
            /\ last' = PeerCall("NewOptions", NilPtr, NoSess, NilPtr, NilPtr, NilPtr,
                                NoErr)
    /\ UNCHANGED <<variant, now, table, written, SessionOpts, secureCookie,
                   DefaultOptions, pc, ctx, cleaner, asked>>

(* MaxAge, lines 217-227, of the store st *)
PeerAfterMaxAge(st, age) ==
    [st |-> [st EXCEPT !.SessionOpts.MaxAge = age,
                       !.secureCookie = SecureCookieNew(st.keys, age,
                                                        DefaultOptions.MaxLength)],
     DefaultOptions |-> [DefaultOptions EXCEPT !.MaxAge = age]]

PeerMaxAge(age) ==
    /\ variant = "store"
    /\ peer # NilPtr
    /\ peer' = <<PeerAfterMaxAge(peer[1], age).st>>
    /\ DefaultOptions' = PeerAfterMaxAge(peer[1], age).DefaultOptions
    /\ last' = PeerCall("PeerMaxAge", NilPtr, NoSess, NilPtr, NilPtr, NilPtr, NoErr)
    /\ UNCHANGED <<variant, now, table, written, SessionOpts, secureCookie, pc, ctx,
                   cleaner, asked>>

(* MaxLength, lines 232-241 *)
PeerMaxLength(l) ==
    /\ variant = "store"
    /\ peer # NilPtr
    /\ peer' = <<[peer[1] EXCEPT
                    !.secureCookie = SecureCookieNew(peer[1].keys,
                                                     DefaultOptions.MaxAge, l)]>>
    /\ DefaultOptions' = [DefaultOptions EXCEPT !.MaxLength = l]
    /\ last' = PeerCall("PeerMaxLength", NilPtr, NoSess, NilPtr, NilPtr, NilPtr,
                        NoErr)
    /\ UNCHANGED <<variant, now, table, written, SessionOpts, secureCookie, pc, ctx,
                   cleaner, asked>>

(* New, lines 120-139; with a nil envelope the Decode of the cookie dereferences
   nil *)
PeerNew(req) ==
    LET after == PeerAfterMaxAge(peer[1], peer[1].SessionOpts.MaxAge)
        st == after.st
        opts == peer[1].SessionOpts
        fresh == [ID |-> "", IsNew |-> TRUE, Values |-> EmptyValues, Options |-> opts]
        s == IF st.secureCookie = NilPtr
             THEN NilPtr
             ELSE getSessionFromCookie(table, st.secureCookie[1], req, SessionName,
                                       now, NoErr)
        loaded == s # NilPtr /\ Decodes(st.secureCookie[1], SessionName, s[1].Data, now)
    IN /\ variant = "store"
       /\ peer # NilPtr
       /\ peer' = <<st>>
       /\ DefaultOptions' = after.DefaultOptions
       /\ last' = IF st.secureCookie = NilPtr /\ req # NilPtr
                  THEN PeerCall("PeerNew", req, NoSess, NilPtr, NilPtr, NilPtr, Panic)
                  ELSE PeerCall("PeerNew", req, NoSess, s,
                                <<IF loaded
                                  THEN [ID |-> s[1].ID, IsNew |-> FALSE,
                                        Values |-> s[1].Data.val, Options |-> opts]
                                  ELSE fresh>>,
                                NilPtr, NoErr)
       /\ UNCHANGED <<variant, now, table, written, SessionOpts, secureCookie, pc,
                      ctx, cleaner, asked>>

(* Save, lines 142-195, its lookup and its write in one step; with a nil
   envelope the Decode of the cookie and the Encode of the values dereference
   nil *)
PeerSave(req, sess, newID) ==
    LET sc == peer[1].secureCookie
        panics == sc = NilPtr /\ (req # NilPtr \/ sess.MaxAge >= 0)
        s == IF sc = NilPtr
             THEN NilPtr
             ELSE getSessionFromCookie(table, sc[1], req, SessionName, now, NoErr)
        r == IF sess.MaxAge < 0
             THEN SaveDelete(s, sess, NoErr)
             ELSE SaveWriteWith(sc[1], s, sess, NoErr, newID)
    IN /\ variant = "store"
       /\ peer # NilPtr
       /\ table' = IF panics THEN table ELSE r.rows
       /\ last' = IF panics
                  THEN PeerCall("PeerSave", req, sess, NilPtr, NilPtr, NilPtr, Panic)
                  ELSE PeerCall("PeerSave", req, sess, s, <<[ID |-> r.ID]>>, r.cookie,
                                r.err)
       /\ UNCHANGED <<variant, now, written, SessionOpts, secureCookie,
                      DefaultOptions, pc, ctx, cleaner, peer, asked>>

----------------------------------------------------------------------------
(* The two deployments *)

(* Time passes between statements. *)
Tick ==
    /\ now < MaxTime
    /\ now' = now + 1
    /\ last' = IF variant = "driver"
               THEN [Call("Tick", Nil, Nil, 0, NoErr, Nil, NoErr) EXCEPT
                        !.at = now + 1]
               ELSE [StoreCall("Tick", Nil, NilPtr, NoSess, NoErr, NilPtr, NilPtr,
                               NilPtr, NoErr) EXCEPT !.at = now + 1]
    /\ UNCHANGED <<variant, table, written, storeVars>>

(* NewOptions of either variant: an empty table (AutoMigrate), no call made
   yet; the cookie store with its default session options and the envelope of
   its keys *)
Init ==
    /\ variant \in {"driver", "store"}
    /\ now = StartTime
    /\ table = {}
    /\ written = [k \in IDs |-> Nil]
    /\ SessionOpts = [Path |-> "/", MaxAge |-> defaultMaxAge]
    /\ secureCookie = NewEnvelope
    /\ DefaultOptions = [MaxAge |-> defaultMaxAge, MaxLength |-> defaultMaxLength]
    /\ pc = [p \in Handlers |-> "idle"]
    /\ ctx = [p \in Handlers |-> [sess |-> NoSess, s |-> NilPtr]]
    /\ cleaner = CleanerOff
    /\ peer = NilPtr
    /\ asked = [MaxAge |-> NilPtr, MaxLength |-> NilPtr]
    /\ last = IF variant = "driver"
              THEN Call("NewOptions", Nil, Nil, 0, NoErr, Nil, NoErr)
              ELSE StoreCall("NewOptions", Nil, NilPtr, NoSess, NoErr, NilPtr,
                             NilPtr, NilPtr, NoErr)

DriverNext ==
    \/ Close
    \/ \E id \in IDs, fault \in Faults : Destroy(id, fault)
    \/ \E id \in IDs, fault \in Faults : Read(id, fault)
    \/ \E m \in (-1)..MaxLifetime, fault \in Faults : Gc(m, fault)
    \/ \E id \in IDs, data \in Payloads, fault \in Faults : Write(id, data, fault)

StoreNext ==
    \/ \E age \in StoreAges : MaxAge(age)
    \/ \E p \in Procs, req \in Requests(now), fault \in QueryFaults :
            New(p, req, fault)
    \/ \E p \in Procs, req \in SaveRequests(now), sess \in Sessions,
          fault \in QueryFaults : SaveLookup(p, req, sess, fault)
    \/ \E p \in Procs, fault \in Faults, newID \in IDs : Save(p, fault, newID)
    \/ \E fault \in QueryFaults : Cleanup(fault)

Next == Tick \/ DriverNext \/ StoreNext

Spec == Init /\ [][Next]_vars

(* NewOptions of src/gormstore.go *)
InitDriver == Init /\ variant = "driver"

(* NewOptions of the cookie store *)
InitStore == Init /\ variant = "store"

----------------------------------------------------------------------------
(* The driver swept with lifetimes of any size *)

GcNext ==
    \/ Tick
    \/ \E id \in IDs, data \in Payloads : Write(id, data, NoErr)
    \/ \E m \in 0..MaxLifetime, fault \in Faults : Gc(m, fault)
    \/ \E digits \in LongLifetimes, fault \in Faults : GcLong(digits, fault)

SpecGc == InitDriver /\ [][GcNext]_vars

----------------------------------------------------------------------------
(* Two cookie stores in one process, the second made with other keys *)

StoresSession == [MaxAge |-> 1, Values |-> "v1"]

(* No cookie, or the cookie of the id "a" as either store sets it, or one made
   under a key neither store has *)
StoresRequests(t) ==
    {NilPtr}
    \cup {<<[name |-> SessionName, val |-> "a", key |-> k, ts |-> t]>> :
            k \in AllKeys}

StoresNext ==
    \/ \E age \in StoreAges : MaxAge(age)
    \/ \E l \in StoreLengths : MaxLength(l)
    \/ \E p \in Procs, req \in StoresRequests(now) : New(p, req, NoErr)
    \/ \E p \in Procs : SaveLookup(p, NilPtr, StoresSession, NoErr)
    \/ \E p \in Procs, newID \in IDs : Save(p, NoErr, newID)
    \/ \E ks \in KeyLists : NewOptions(ks)
    \/ \E age \in StoreAges : PeerMaxAge(age)
    \/ \E l \in StoreLengths : PeerMaxLength(l)
    \/ \E req \in StoresRequests(now) : PeerNew(req)
    \/ \E newID \in IDs : PeerSave(NilPtr, StoresSession, newID)

SpecStores == InitStore /\ [][StoresNext]_vars

----------------------------------------------------------------------------
(* The cookie store with two handlers inside Save at the same time *)

RaceSessions ==
    {[MaxAge |-> -1, Values |-> "v1"],
     [MaxAge |-> 1, Values |-> "v1"]}

(* No cookie, or the cookie a Save has just set for an id *)
RaceRequests(t) ==
    {NilPtr}
    \cup {<<[name |-> SessionName, val |-> id, key |-> keys[1], ts |-> t]>> :
            id \in IDs}

RaceNext ==
    \/ Tick
    \/ \E p \in Procs : New(p, NilPtr, NoErr)
    \/ \E p \in Handlers, req \in RaceRequests(now), sess \in RaceSessions :
            SaveLookup(p, req, sess, NoErr)
    \/ \E p \in Handlers, newID \in IDs : Save(p, NoErr, newID)

SpecRace == InitStore /\ [][RaceNext]_vars

----------------------------------------------------------------------------
(* The cookie store with its periodic cleanup running beside the handlers *)

CleanerSession == [MaxAge |-> 1, Values |-> "v1"]

CleanerNext ==
    \/ Tick
    \/ \E p \in Procs : New(p, NilPtr, NoErr)
    \/ \E p \in Procs : SaveLookup(p, NilPtr, CleanerSession, NoErr)
    \/ \E p \in Procs, newID \in IDs : Save(p, NoErr, newID)
    \/ PeriodicCleanup
    \/ TickerFires
    \/ CloseQuit
    \/ SelectTick
    \/ \E fault \in QueryFaults : CleanupPass(fault)
    \/ SelectQuit

(* The goroutine runs when it can: a pass ends, and a select on which quit is
   ready again and again takes that case in the end (select chooses among the
   ready cases at random) *)
CleanerFairness ==
    /\ WF_vars(\E fault \in QueryFaults : CleanupPass(fault))
    /\ SF_vars(SelectQuit)

SpecCleaner == InitStore /\ [][CleanerNext]_vars /\ CleanerFairness

----------------------------------------------------------------------------
(* Properties of the driver variant *)

RowsOf(T, id) == {r \in T : r.ID = id}

(* C1: a payload written under an id is what Read returns for that id, however
   old the row has become, until a later Write, a Destroy or a Gc removes or
   replaces it; Read and Close leave the table as they found it.  (Read whose
   query executes; a failed query reads as absent, C10.) *)
C1_RoundTrip ==
    variant = "driver" =>
        /\ (last.op = "Read" /\ last.fault = NoErr /\ written[last.id] # Nil) =>
               (last.out = written[last.id] /\ last.err = NoErr)
        /\ last.op \in {"Read", "Close"} => table = last.before

C1_Witness ==
    /\ last.op = "Read"
    /\ last.fault = NoErr
    /\ written[last.id] = "p"
    /\ last.out = "p"
    /\ \E r \in table : r.ID = last.id /\ r.UpdatedAt <= now - 2

(* C2: a successful Gc(maxLifetime) at time now removes exactly the rows with
   updatedAt < now - maxLifetime and leaves every other row as it was *)
C2_GcExact ==
    (variant = "driver" /\ last.op = "Gc" /\ last.err = NoErr) =>
        table = {r \in last.before : ~(r.UpdatedAt < last.at - last.maxLifetime)}

C2_Witness ==
    /\ variant = "driver"
    /\ last.op = "Gc"
    /\ last.err = NoErr
    /\ last.maxLifetime >= 0
    /\ \E r \in last.before : /\ r.UpdatedAt = last.at - last.maxLifetime - 1
                              /\ r \notin table
    /\ \E r \in last.before : /\ r.UpdatedAt = last.at - last.maxLifetime + 1
                              /\ r \in table

(* C7: the table never holds two rows of one id; a successful Write on an id
   that has a row replaces its data and refreshes its updatedAt in place, and on
   an id without a row inserts exactly one row; no other row changes *)
C7_OneRowPerId ==
    variant = "driver" =>
        /\ \A r1, r2 \in table : r1.ID = r2.ID => r1 = r2
        /\ (last.op = "Write" /\ last.err = NoErr) =>
               /\ Cardinality(RowsOf(table, last.id)) = 1
               /\ \A r \in RowsOf(table, last.id) :
                      r.Data = last.data /\ r.UpdatedAt = last.at
               /\ table \ RowsOf(table, last.id)
                      = last.before \ RowsOf(last.before, last.id)
               /\ Cardinality(table) =
                      Cardinality(last.before)
                      + (IF RowsOf(last.before, last.id) = {} THEN 1 ELSE 0)

C7_Witness ==
    /\ variant = "driver"
    /\ last.op = "Write"
    /\ last.err = NoErr
    /\ \E r \in last.before : /\ r.ID = last.id
                              /\ r.Data # last.data
                              /\ r.UpdatedAt < last.at
    /\ Cardinality(table) = 2

(* C8: Destroy(K) whose statement executes returns no error, removes the row of
   K and nothing else; with no row of K it leaves the table unchanged; after it
   no row of K is left, so a second Destroy(K) changes nothing *)
C8_DestroyIdempotent ==
    (variant = "driver" /\ last.op = "Destroy" /\ last.fault = NoErr) =>
        /\ last.err = NoErr
        /\ table = last.before \ RowsOf(last.before, last.id)
        /\ RowsOf(last.before, last.id) = {} => table = last.before
        /\ OrmDelete(table, RowsOf(table, last.id), NoErr).rows = table

C8_Witness ==
    /\ variant = "driver"
    /\ last.op = "Destroy"
    /\ last.fault = NoErr
    /\ last.err = NoErr
    /\ RowsOf(last.before, last.id) = {}
    /\ table # {}

(* C10: Read never returns an error; for an id without a row, and when its
   query fails, it returns the empty string *)
C10_ReadNeverFails ==
    (variant = "driver" /\ last.op = "Read") =>
        /\ last.err = NoErr
        /\ RowsOf(table, last.id) = {} => last.out = ""
        /\ last.fault # NoErr => last.out = ""

C10_Witness ==
    /\ variant = "driver"
    /\ last.op = "Read"
    /\ last.fault # NoErr
    /\ last.out = ""
    /\ last.err = NoErr
    /\ \E r \in table : r.ID = last.id /\ r.Data = "p"

----------------------------------------------------------------------------
(* Properties of the self-contained variant *)

(* The request carries a cookie that the envelope decodes to an id *)
ValidCookie(req, t) ==
    req # NilPtr /\ Decodes(secureCookie, SessionName, req[1], t)

(* C3: the cookie lookup never returns a record with expiresAt <= now; for a
   valid cookie whose record has expired and is still in the table, New yields
   a fresh session and Save proceeds as for a session without a record: it
   inserts a row under a fresh id and leaves the expired row as it is *)
C3_ExpiredUnreachable ==
    variant = "store" =>
        /\ (last.op \in {"New", "SaveLookup"} /\ last.s # NilPtr) =>
               last.s[1].ExpiresAt > last.at
        /\ ( /\ last.op \in {"New", "SaveLookup"}
             /\ last.req # NilPtr
             /\ \A r \in RowsOf(table, last.req[1].val) : r.ExpiresAt <= last.at ) =>
               /\ last.s = NilPtr
               /\ last.op = "New" =>
                      last.out[1].IsNew /\ last.out[1].ID = ""
        /\ ( /\ last.op = "Save"
             /\ last.s = NilPtr
             /\ last.sess.MaxAge >= 0
             /\ last.err = NoErr ) =>
               /\ last.before \subseteq table
               /\ table \ last.before =
                      {r \in table : /\ r.ID = last.out[1].ID
                                     /\ r.CreatedAt = last.at
                                     /\ r.ExpiresAt = last.at + last.sess.MaxAge}
               /\ Cardinality(table) = Cardinality(last.before) + 1

C3_Witness ==
    /\ variant = "store"
    /\ last.op = "New"
    /\ last.fault = NoErr
    /\ ValidCookie(last.req, last.at)
    /\ \E r \in table : r.ID = last.req[1].val /\ r.ExpiresAt = last.at
    /\ last.out[1].IsNew

(* C4: a Cleanup whose statement executes at time now deletes exactly the rows
   with expiresAt <= now, so what a lookup at that instant returns for any id
   is the same before and after it, also with a Save in progress *)
C4_CleanupExact ==
    (variant = "store" /\ last.op = "Cleanup" /\ last.fault = NoErr) =>
        /\ table = {r \in last.before : r.ExpiresAt > last.at}
        /\ \A id \in IDs :
               {r \in last.before : LookupMatches(r, id, last.at)}
                   = {r \in table : LookupMatches(r, id, last.at)}

C4_Witness ==
    /\ variant = "store"
    /\ last.op = "Cleanup"
    /\ last.fault = NoErr
    /\ \E r \in last.before : r.ExpiresAt = last.at /\ r \notin table
    /\ \E r \in table : r.ExpiresAt > last.at
    /\ \E p \in Procs : pc[p] = "saving" /\ ctx[p].s # NilPtr

(* C5 as stated: after a successful Save with a negative max-age no row with
   the id of the request's cookie is in the table, no row was created or
   updated and the response clears the cookie.  (Stated over a Save whose
   lookup and delete run back to back.) *)
C5_CookieRecordAbsent ==
    [][ ( /\ variant = "store"
          /\ last.op = "SaveLookup"
          /\ last'.op = "Save"
          /\ last'.sess.MaxAge < 0
          /\ last'.err = NoErr ) =>
            /\ ValidCookie(last.req, last.at) =>
                   RowsOf(table', last.req[1].val) = {}
            /\ table' \subseteq table
            /\ last'.cookie = <<[name |-> SessionName, value |-> NilPtr,
                                 MaxAge |-> last'.sess.MaxAge]>> ]_vars

(* C5 as amended: after a successful Save with a negative max-age the record
   that the cookie lookup returned is gone, every other row (also an expired row
   with the cookie's id, which the lookup does not return) is as it was, and the
   response carries the session's cookie with an empty value *)
C5_FoundRecordDeleted ==
    ( /\ variant = "store"
      /\ last.op = "Save"
      /\ last.sess.MaxAge < 0
      /\ last.err = NoErr ) =>
        /\ last.s # NilPtr => RowsOf(table, last.s[1].ID) = {}
        /\ table = IF last.s = NilPtr
                   THEN last.before
                   ELSE last.before \ RowsOf(last.before, last.s[1].ID)
        /\ last.cookie = <<[name |-> SessionName, value |-> NilPtr,
                            MaxAge |-> last.sess.MaxAge]>>

C5_Witness ==
    /\ variant = "store"
    /\ last.op = "Save"
    /\ last.sess.MaxAge < 0
    /\ last.err = NoErr
    /\ last.s # NilPtr
    /\ last.s[1] \in last.before
    /\ RowsOf(table, last.s[1].ID) = {}
    /\ table # {}

(* C6: New returns no error; the session is the stored one (isNew false, the
   record's id and values) exactly when the request has the cookie, the
   envelope decodes it to an id, the query executes and finds a record of that
   id with expiresAt > now, and the record's payload decodes; otherwise it is
   fresh (isNew true, no id, no values); its options are the store's *)
C6_NewLoadsOrStartsFresh ==
    (variant = "store" /\ last.op = "New") =>
        LET session == last.out[1]
            live == IF last.req = NilPtr
                    THEN {}
                    ELSE {r \in table : /\ r.ID = last.req[1].val
                                        /\ r.ExpiresAt > last.at}
            loads == /\ ValidCookie(last.req, last.at)
                     /\ last.fault = NoErr
                     /\ \E r \in live :
                            Decodes(secureCookie, SessionName, r.Data, last.at)
        IN /\ last.err = NoErr
           /\ session.Options = SessionOpts
           /\ session.IsNew = ~loads
           /\ loads => /\ session.ID = last.req[1].val
                       /\ \E r \in live : session.Values = r.Data.val
           /\ ~loads => session.ID = "" /\ session.Values = EmptyValues

C6_Witness ==
    /\ variant = "store"
    /\ last.op = "New"
    /\ last.req # NilPtr
    /\ last.req[1].key = keys[2]
    /\ ~last.out[1].IsNew
    /\ last.out[1].ID = last.req[1].val
    /\ last.out[1].Values = "v2"

----------------------------------------------------------------------------
(* Properties of both variants *)

(* C9: the error of a failed statement is what the caller gets: from Write,
   Destroy and Gc, and from the insert, update or delete of Save, which then
   sets no cookie *)
C9_MutationErrorsReturned ==
    /\ ( /\ variant = "driver"
         /\ last.op \in {"Write", "Destroy", "Gc"}
         /\ last.fault # NoErr ) =>
           last.err = last.fault
    /\ (variant = "store" /\ last.op = "Save") =>
           LET deletes == last.sess.MaxAge < 0 /\ last.s # NilPtr
               writes == /\ last.sess.MaxAge >= 0
                         /\ Encode(secureCookie, SessionName, last.sess.Values,
                                   last.at).err = NoErr
               inserts == writes /\ last.s = NilPtr
           IN /\ ((deletes \/ writes) /\ last.fault # NoErr) =>
                     last.err = last.fault
              /\ ( /\ inserts
                   /\ RowsOf(last.before, last.out[1].ID) # {} ) =>
                     last.err # NoErr
              /\ last.err # NoErr => last.cookie = NilPtr

C9_Witness ==
    /\ variant = "store"
    /\ last.op = "Save"
    /\ last.sess.MaxAge >= 0
    /\ last.s # NilPtr
    /\ last.fault = "ErrTimeout"
    /\ last.err = "ErrTimeout"
    /\ last.cookie = NilPtr

----------------------------------------------------------------------------
(* Properties of the periodic cleanup *)

(* PeriodicCleanup has returned only after quit was closed and with its ticker
   stopped, the ticker is stopped nowhere else, and every tick received has had
   its pass, but for the one in progress *)
CleanerSafe ==
    /\ cleaner.at = "done" => (cleaner.quit /\ cleaner.ticker = "stopped")
    /\ cleaner.ticker = "stopped" => cleaner.at = "done"
    /\ cleaner.at = "idle" => cleaner.ticker = "none"
    /\ cleaner.at \in {"select", "pass"} => cleaner.ticker = "on"
    /\ cleaner.rx = (cleaner.px + (IF cleaner.at = "pass" THEN 1 ELSE 0)) % Modulus

(* C11: PeriodicCleanup runs one Cleanup pass for each tick it receives and runs
   until it observes the close of quit; once quit is closed it returns in the
   end, its ticker is stopped when it returns, and after it has returned it
   receives no tick and starts no pass *)
C11_PeriodicCleanupStops ==
    /\ []CleanerSafe
    /\ [][cleaner.at = "done" => cleaner' = cleaner]_vars
    /\ (cleaner.quit /\ cleaner.at \in {"select", "pass"}) ~> (cleaner.at = "done")

C11_Witness ==
    /\ cleaner.at = "done"
    /\ cleaner.ticker = "stopped"
    /\ cleaner.px = 2
    /\ cleaner.C
    /\ last.op = "Cleanup"
    /\ \E r \in last.before : r \notin table

(* C15: after quit is closed PeriodicCleanup starts at most one more pass before
   it returns *)
C15_StopWithinOneTick ==
    cleaner.late <= 1

----------------------------------------------------------------------------
(* Properties of concurrent Saves *)

(* The id of the record a Save worked on: that of the record its lookup
   returned, or else the id it generated *)
OwnID(call) == IF call.s # NilPtr THEN call.s[1].ID ELSE call.out[1].ID

(* C12: a successful Save leaves every row of another id as it found it, also
   with another handler between its own lookup and write; with a max-age >= 0
   its own id then has exactly one row, holding the values, updatedAt and
   expiresAt of this Save *)
C12_SavesOfDistinctIds ==
    (variant = "store" /\ last.op = "Save" /\ last.err = NoErr) =>
        /\ table \ RowsOf(table, OwnID(last))
               = last.before \ RowsOf(last.before, OwnID(last))
        /\ last.sess.MaxAge >= 0 =>
               /\ Cardinality(RowsOf(table, OwnID(last))) = 1
               /\ \A r \in RowsOf(table, OwnID(last)) :
                      /\ r.Data.val = last.sess.Values
                      /\ r.UpdatedAt = last.at
                      /\ r.ExpiresAt = last.at + last.sess.MaxAge

C12_Witness ==
    /\ last.op = "Save"
    /\ last.err = NoErr
    /\ last.sess.MaxAge >= 0
    /\ last.s = NilPtr
    /\ \E q \in Handlers \ {last.p} :
           /\ pc[q] = "saving"
           /\ ctx[q].s # NilPtr
           /\ ctx[q].s[1].ID # OwnID(last)
           /\ ctx[q].s[1] \in table
           /\ ctx[q].s[1].UpdatedAt < last.at

(* C18: once a Save with a negative max-age has deleted a record, the Save of
   another handler that had looked that record up before does not bring a
   record of that id back *)
C18_NoResurrection ==
    [][ ( /\ variant = "store"
          /\ last.op = "Save"
          /\ last.sess.MaxAge < 0
          /\ last.err = NoErr
          /\ last.s # NilPtr
          /\ last'.op = "Save"
          /\ last'.s # NilPtr
          /\ last'.s[1].ID = last.s[1].ID ) =>
            RowsOf(table', last.s[1].ID) = {} ]_vars

----------------------------------------------------------------------------
(* Properties of the envelope and its keys *)

KeysOf(ks) == {ks[i] : i \in 1..Len(ks)}

(* The session New returned is the stored one exactly when the cookie's key and
   the key of the record's payload are among ks and the record of the cookie's
   id is live *)
LoadsWithKeys(call, ks) ==
    call.out[1].IsNew =
        ~ ( /\ call.req[1].key \in KeysOf(ks)
            /\ \E r \in call.before : /\ r.ID = call.req[1].val
                                       /\ r.ExpiresAt > call.at
                                       /\ r.Data.key \in KeysOf(ks) )

(* C13: every envelope a store holds has the store's first key as its key and
   the other keys as rotated keys; New accepts a cookie made under any key of
   the store's list and starts a fresh session for a cookie made under a key
   outside it; what Save encodes, the record's payload and the cookie, is made
   under the first key of the store that saves *)
C13_KeyRotation ==
    variant = "store" =>
        /\ secureCookie.Key = keys[1] /\ secureCookie.RotatedKeys = Tail(keys)
        /\ (peer # NilPtr /\ peer[1].secureCookie # NilPtr) =>
               /\ peer[1].secureCookie[1].Key = peer[1].keys[1]
               /\ peer[1].secureCookie[1].RotatedKeys = Tail(peer[1].keys)
        /\ (last.op = "New" /\ last.req # NilPtr) => LoadsWithKeys(last, keys)
        /\ (last.op = "PeerNew" /\ last.req # NilPtr /\ last.err = NoErr) =>
               LoadsWithKeys(last, peer[1].keys)
        /\ (last.op \in {"Save", "PeerSave"} /\ last.cookie # NilPtr
                /\ last.cookie[1].value # NilPtr) =>
               LET k == IF last.op = "Save" THEN keys[1] ELSE peer[1].keys[1]
               IN /\ last.cookie[1].value[1].key = k
                  /\ \A r \in RowsOf(table, OwnID(last)) : r.Data.key = k

C13_Witness ==
    /\ last.op = "New"
    /\ last.req # NilPtr
    /\ last.req[1].key = keys[2]
    /\ ~last.out[1].IsNew
    /\ \E r \in table : r.ID = last.out[1].ID /\ r.Data.key = keys[2]
    /\ secureCookie # NewEnvelope
    /\ peer # NilPtr

(* C14: NewOptions with no key panics and yields no store, and a store that
   NewOptions has returned holds an envelope made with its first key *)
C14_ConstructionYieldsEnvelope ==
    /\ (last.op = "NewOptions" /\ last.err = Panic) => peer = NilPtr
    /\ peer # NilPtr =>
           /\ peer[1].secureCookie # NilPtr
           /\ peer[1].secureCookie[1].Key = peer[1].keys[1]

(* C19: once MaxAge(a) and MaxLength(l) have been called on the store, its
   envelope has the maximum age a and the maximum length l of the last such
   calls, whatever is called on the other store *)
C19_EnvelopeOwnConfig ==
    (asked.MaxAge # NilPtr /\ asked.MaxLength # NilPtr) =>
        /\ secureCookie.MaxAge = asked.MaxAge[1]
        /\ secureCookie.MaxLength = asked.MaxLength[1]

----------------------------------------------------------------------------
(* Properties of the sweep of the driver *)

(* C16 as stated: after a successful Gc(maxLifetime) at time now every row left
   has updatedAt > now - maxLifetime *)
C16_OnlyNewerRemain ==
    (variant = "driver" /\ last.op = "Gc" /\ last.err = NoErr) =>
        \A r \in table : r.UpdatedAt > last.at - last.maxLifetime

(* C16 as amended: after a successful Gc(maxLifetime) at time now every row left
   has updatedAt >= now - maxLifetime, and the rows that had updatedAt = now -
   maxLifetime are among them *)
C16_NoneOlderRemains ==
    (variant = "driver" /\ last.op = "Gc" /\ last.err = NoErr) =>
        /\ \A r \in table : r.UpdatedAt >= last.at - last.maxLifetime
        /\ \A r \in last.before :
               r.UpdatedAt = last.at - last.maxLifetime => r \in table

C16_Witness ==
    /\ variant = "driver"
    /\ last.op = "Gc"
    /\ last.err = NoErr
    /\ last.maxLifetime > 0
    /\ \E r \in table : r.UpdatedAt = last.at - last.maxLifetime
    /\ \E r \in last.before : r \notin table

(* C20: a successful Gc(maxLifetime) with maxLifetime >= 0 deletes no row with
   updatedAt >= now - maxLifetime; with a lifetime of LongLifetimes, which
   reaches back before every row of the run, it deletes none *)
C20_CutoffNeverWraps ==
    variant = "driver" =>
        /\ (last.op = "Gc" /\ last.err = NoErr) =>
               \A r \in last.before :
                   r.UpdatedAt >= last.at - last.maxLifetime => r \in table
        /\ (last.op = "GcLong" /\ last.err = NoErr) => table = last.before

----------------------------------------------------------------------------
(* Properties of a saved session *)

(* After a successful Save with a max-age > 0 the session's id has exactly one
   row, with expiresAt = now + max-age and the values encoded, inserted under
   the generated id when the lookup returned no record and else updated in
   place, and the cookie carries the envelope of that id *)
SaveStoresSession ==
    ( /\ variant = "store"
      /\ last.op = "Save"
      /\ last.sess.MaxAge > 0
      /\ last.err = NoErr ) =>
        /\ Cardinality(RowsOf(table, OwnID(last))) = 1
        /\ \A r \in RowsOf(table, OwnID(last)) :
               /\ r.ExpiresAt = last.at + last.sess.MaxAge
               /\ r.Data = [name |-> SessionName, val |-> last.sess.Values,
                            key |-> keys[1], ts |-> last.at]
               /\ last.s # NilPtr => r.CreatedAt = last.s[1].CreatedAt
        /\ last.s = NilPtr => RowsOf(last.before, OwnID(last)) = {}
        /\ table \ RowsOf(table, OwnID(last)) =
               last.before \ RowsOf(last.before, OwnID(last))
        /\ last.cookie =
               <<[name |-> SessionName,
                  value |-> <<[name |-> SessionName, val |-> OwnID(last),
                               key |-> keys[1], ts |-> last.at]>>,
                  MaxAge |-> last.sess.MaxAge]>>

(* The request of the call carries the cookie a Save set at the time ts of the
   cookie, and the row that Save wrote is still as it left it and has not
   expired *)
BearsSavedCookie(call, r) ==
    /\ call.req # NilPtr
    /\ call.req[1].name = SessionName
    /\ call.req[1].key = keys[1]
    /\ r.ID = call.req[1].val
    /\ r.UpdatedAt = call.req[1].ts
    /\ r.ExpiresAt > call.at

(* C17 as stated: Save stores the session, and a New whose query executes, on a
   request with the cookie of that Save, before the record expires, returns the
   saved session *)
C17_SavedSessionLoads ==
    /\ SaveStoresSession
    /\ (variant = "store" /\ last.op = "New" /\ last.fault = NoErr) =>
           \A r \in table :
               BearsSavedCookie(last, r) =>
                   /\ ~last.out[1].IsNew
                   /\ last.out[1].ID = r.ID
                   /\ last.out[1].Values = r.Data.val

(* C17 as amended: the same for a New that comes less than the store's max-age
   after the Save (a store's max-age of 0 sets no such limit) *)
C17_SavedSessionLoadsWithinAge ==
    /\ SaveStoresSession
    /\ (variant = "store" /\ last.op = "New" /\ last.fault = NoErr) =>
           \A r \in table :
               ( /\ BearsSavedCookie(last, r)
                 /\ \/ SessionOpts.MaxAge = 0
                    \/ last.at < last.req[1].ts + SessionOpts.MaxAge ) =>
                   /\ ~last.out[1].IsNew
                   /\ last.out[1].ID = r.ID
                   /\ last.out[1].Values = r.Data.val

C17_Witness ==
    /\ variant = "store"
    /\ last.op = "New"
    /\ last.fault = NoErr
    /\ \E r \in table : BearsSavedCookie(last, r) /\ r.Data.val = "v2"
    /\ last.req[1].ts = last.at - 2
    /\ ~last.out[1].IsNew
    /\ last.out[1].Values = "v2"

====
